---- MODULE Spec2Model ----
(***************************************************************************)
(* Chromosome (Gene Expression Programming): the gene decoder build_tree,  *)
(* the tree linker link, the memoizing evaluator evaluate and the fitness  *)
(* scorers of src/Chromosome.py.  Genes are sequences of one-character     *)
(* symbols; anytree Nodes live in an arena (heap) addressed by index, each *)
(* with a name, a parent reference (0 for None) and an ordered child list. *)
(***************************************************************************)
EXTENDS Integers, Sequences, FiniteSets, TLC

\* ------------------------------------------------------------------ bounds
\* longest gene handed to build_tree on its own
MaxGeneLen == 5
\* most trees handed to link on its own
MaxTrees == 4
\* the interpreter's recursion limit (sys.getrecursionlimit), scaled down
RecursionLimit == 7
\* most genes of a chromosome
MaxGenes == 2
\* most fitness cases in Chromosome.fitness_cases
MaxCases == 2

\* ------------------------------------------------------------ symbol table
\* Chromosome.functions: symbol -> number of arguments of its callable.
\* "+" adds, "/" divides (floor division, ZeroDivisionError on a zero
\* divisor), "Q" is the square root, "T" is x*y+z.
functions == [f \in {"+", "/", "Q", "T"} |->
                [args |-> CASE f = "+" -> 2 [] f = "/" -> 2 [] f = "Q" -> 1 [] OTHER -> 3]]

\* Chromosome.terminals: variables a and b, the ephemeral constant "?",
\* the digit literal "1" and the named constant "p"
terminals == {"a", "b", "?", "1", "p"}

\* Chromosome.constants
constants == [c \in {"p"} |-> 3]

\* ------------------------------------------------------- sequence helpers
Min(a, b) == IF a < b THEN a ELSE b

\* Python's s[i:j] for 0 <= i, 0 <= j: the slice is clamped to the sequence
Slice(s, i, j) ==
  LET lo == Min(i, Len(s))
      hi == Min(j, Len(s))
  IN IF hi <= lo THEN <<>> ELSE SubSeq(s, lo + 1, hi)

\* Python's s[n:]
Drop(s, n) == Slice(s, n, Len(s))

Last(s) == s[Len(s)]

\* LET x == e IN F(x), with e evaluated once and x bound to its value
Bind(e, F(_)) == CHOOSE r \in {F(x) : x \in {e}} : TRUE

\* all sequences over S of length 1..n
SeqsUpTo(S, n) == UNION {[1..k -> S] : k \in 1..n}

\* ------------------------------------------------------------ anytree Node
\* Node(name, parent=parent): a new node, appended to its parent's children
NewNode(h, name, parent) ==
  LET id == Len(h) + 1
      h1 == Append(h, [name |-> name, parent |-> parent, children |-> <<>>])
  IN IF parent = 0 THEN h1
     ELSE [h1 EXCEPT ![parent].children = Append(@, id)]

\* s without its element x
Without(s, x) == SelectSeq(s, LAMBDA y : y # x)

\* node.parent = parent: the node leaves its old parent's children and is
\* appended to the new parent's children; its own children are untouched
SetParent(h, id, parent) ==
  LET old == h[id].parent
      h1 == IF old = 0 THEN h
            ELSE [h EXCEPT ![old].children = Without(@, id)]
  IN IF old = parent THEN h
     ELSE [h1 EXCEPT ![id].parent = parent,
                     ![parent].children = Append(@, id)]

\* ---------------------------------------------------------------- build_tree
\* args(f): the number of arguments of a function, 0 for anything else
args(f) == IF f \in DOMAIN functions THEN functions[f].args ELSE 0

RECURSIVE SumArgs(_)
\* sum([args(f) for f in level])
SumArgs(level) ==
  IF level = <<>> THEN 0 ELSE args(level[1]) + SumArgs(Tail(level))

\* the condition of the level-building while loop
LoopCond(gene, levels, index) ==
  index < Len(gene) /\ SumArgs(Last(levels)) # 0

\* a loop body that forgets index += nargs
NextIndexStuck(index, nargs) == index

\* the index the loop body leaves: index += nargs
NextIndex(index, nargs) == index + nargs

\* the body of the level-building while loop
LoopBody(gene, levels, index) ==
  LET nargs == SumArgs(Last(levels))
  IN [levels |-> Append(levels, Slice(gene, index + 1, index + 1 + nargs)),
      index  |-> NextIndex(index, nargs)]

RECURSIVE BuildLevels(_, _, _)
\* the whole while loop, from levels = [gene[0]], index = 0
BuildLevels(gene, levels, index) ==
  IF LoopCond(gene, levels, index)
  THEN LET b == LoopBody(gene, levels, index)
       IN BuildLevels(gene, b.levels, b.index)
  ELSE levels

\* a grab_children that leaves the symbols of a level it has handed out
TrimLevelNever(levels, current_level, name) == levels

\* levels[current_level + 1] = levels[current_level + 1][args(current_node.name):]
\* (levels is 1-based here: Python's levels[k] is levels[k + 1])
TrimLevel(levels, current_level, name) ==
  IF current_level < Len(levels) - 1
  THEN [levels EXCEPT ![current_level + 2] = Drop(@, args(name))]
  ELSE levels

RECURSIVE grab_children(_, _, _)
RECURSIVE GrabLoop(_, _, _, _, _)
\* grab_children(parent, current_level) on st = [heap, levels, raised]
grab_children(st, parent, current_level) ==
  IF st.raised # "" THEN st
  ELSE IF current_level < Len(st.levels)
  THEN GrabLoop(st, parent, current_level, 0, args(st.heap[parent].name))
  ELSE st

\* for i in range(nargs): ..., from iteration i on
GrabLoop(st, parent, current_level, i, nargs) ==
  IF st.raised # "" \/ i >= nargs THEN st
  ELSE IF i >= Len(st.levels[current_level + 1])
  THEN [st EXCEPT !.raised = "IndexError"]
  ELSE LET name == st.levels[current_level + 1][i + 1]
           current_node == Len(st.heap) + 1
       IN Bind(grab_children([st EXCEPT !.heap = NewNode(st.heap, name, parent)],
                             current_node, current_level + 1),
               LAMBDA s1 :
                 IF s1.raised # "" THEN s1
                 ELSE GrabLoop([s1 EXCEPT !.levels =
                                  TrimLevel(s1.levels, current_level, name)],
                               parent, current_level, i + 1, nargs))

\* tree = Node(gene[0]); grab_children(tree); return tree
Materialize(h, gene, levels) ==
  Bind(grab_children([heap |-> NewNode(h, gene[1], 0), levels |-> levels,
                      raised |-> ""], Len(h) + 1, 1),
       LAMBDA st : [heap |-> st.heap, root |-> Len(h) + 1, raised |-> st.raised])

\* build_tree(gene), allocating in heap h
build_tree(h, gene) ==
  IF gene = <<>> THEN [heap |-> h, root |-> 0, raised |-> "IndexError"]
  ELSE Materialize(h, gene, BuildLevels(gene, <<SubSeq(gene, 1, 1)>>, 0))

\* ---------------------------------------------------------------------- link
\* isinstance(arg, Node): a reference into the heap (0 stands for any other
\* object)
IsNode(h, x) == x \in 1..Len(h)

RECURSIVE AttachAll(_, _, _)
\* for tree in args: tree.parent = root
AttachAll(h, trees, root) ==
  IF trees = <<>> THEN h
  ELSE AttachAll(SetParent(h, trees[1], root), Tail(trees), root)

RECURSIVE LinkBaseSwapped(_, _, _)
\* a base case that sets root.parent = tree instead of tree.parent = root
LinkBaseSwapped(h, largs, root) ==
  IF largs = <<>> THEN h
  ELSE LinkBaseSwapped(SetParent(h, root, largs[1]), Tail(largs), root)

\* the base case of link_recursive: len(args) == nargs, the args become the
\* children of root
LinkBase(h, largs, root) == AttachAll(h, largs, root)

RECURSIVE link_recursive(_, _, _, _, _)
\* link_recursive(*args) at recursion depth depth; a call deeper than the
\* recursion limit raises RecursionError
link_recursive(h, lf, nargs, largs, depth) ==
  IF depth > RecursionLimit
  THEN [heap |-> h, root |-> 0, raised |-> "RecursionError"]
  ELSE LET root == Len(h) + 1
       IN IF Len(largs) = nargs
          THEN [heap |-> LinkBase(NewNode(h, lf, 0), largs, root), root |-> root,
                raised |-> ""]
          ELSE Bind(link_recursive(NewNode(h, lf, 0), lf, nargs,
                                   Slice(largs, 0, nargs), depth + 1),
                    LAMBDA inner :
                      IF inner.raised # "" THEN inner
                      ELSE link_recursive(inner.heap, lf, nargs,
                                          <<inner.root>> \o Drop(largs, nargs),
                                          depth + 1))

\* link(*args) with Chromosome.linking_function = lf
link(h, lf, largs) ==
  IF lf \notin DOMAIN functions
  THEN [heap |-> h, root |-> 0, raised |-> "ValueError"]
  ELSE IF \E i \in 1..Len(largs) : ~IsNode(h, largs[i])
  THEN [heap |-> h, root |-> 0, raised |-> "TypeError"]
  ELSE link_recursive(h, lf, functions[lf].args, largs, 1)

\* ------------------------------------------------------------------ values
\* a number the evaluator handles: a real (here an integer), not-a-number,
\* a complex number, or None
Real(n) == [t |-> "real", v |-> n]

NaN == [t |-> "nan", v |-> 0]

Complex == [t |-> "complex", v |-> 0]

None == [t |-> "none", v |-> 0]

Abs(n) == IF n < 0 THEN -n ELSE n

\* Python's a // b for b # 0: the quotient rounded towards minus infinity
FloorDiv(a, b) ==
  LET q == Abs(a) \div Abs(b)
  IN IF a = 0 \/ (a < 0) = (b < 0) THEN q
     ELSE IF q * Abs(b) = Abs(a) THEN -q ELSE -q - 1

\* the integer part of the d-th root of x >= 0, d >= 1
Root(x, d) == CHOOSE r \in 0..x : r^d <= x /\ (r + 1)^d > x

\* the registered callable of function f applied to the argument list xs:
\* [val, raised].  sqrt_impl says how the registered square root treats a
\* negative argument: "pow" (x ** 0.5) returns a complex number, "math"
\* (math.sqrt) raises ValueError.
Apply(f, xs, sqrt_impl) ==
  LET ok(v)  == [val |-> v, raised |-> ""]
      err(e) == [val |-> None, raised |-> e]
      has(t) == \E i \in 1..Len(xs) : xs[i].t = t
  IN IF Len(xs) # functions[f].args \/ has("none") THEN err("TypeError")
     ELSE CASE f = "+" ->
                 IF has("complex") THEN ok(Complex)
                 ELSE IF has("nan") THEN ok(NaN)
                 ELSE ok(Real(xs[1].v + xs[2].v))
            [] f = "/" ->
                 IF has("complex") THEN err("TypeError")
                 ELSE IF xs[2].t = "real" /\ xs[2].v = 0 THEN err("ZeroDivisionError")
                 ELSE IF has("nan") THEN ok(NaN)
                 ELSE ok(Real(FloorDiv(xs[1].v, xs[2].v)))
            [] f = "Q" ->
                 IF xs[1].t = "complex"
                 THEN (IF sqrt_impl = "pow" THEN ok(Complex) ELSE err("TypeError"))
                 ELSE IF xs[1].t = "nan" THEN ok(NaN)
                 ELSE IF xs[1].v < 0
                 THEN (IF sqrt_impl = "pow" THEN ok(Complex) ELSE err("ValueError"))
                 ELSE ok(Real(Root(xs[1].v, 2)))
            [] OTHER ->
                 IF has("complex") THEN ok(Complex)
                 ELSE IF has("nan") THEN ok(NaN)
                 ELSE ok(Real(xs[1].v * xs[2].v + xs[3].v))

\* ---------------------------------------------------------------- evaluate
\* the symbols in character order, and a symbol's place in it
Alphabet == <<"+", "/", "1", "?", "Q", "T", "a", "b", "p">>

Ord(c) == CHOOSE i \in 1..Len(Alphabet) : Alphabet[i] = c

RECURSIVE InsertSorted(_, _)
\* s, sorted by key, with the pair p put in its place
InsertSorted(s, p) ==
  IF s = <<>> THEN <<p>>
  ELSE IF Ord(p[1]) < Ord(s[1][1]) THEN <<p>> \o s
  ELSE <<s[1]>> \o InsertSorted(Tail(s), p)

RECURSIVE Sorted(_)
\* sorted(items): the (name, value) pairs in the order of their names
Sorted(items) ==
  IF items = <<>> THEN <<>>
  ELSE InsertSorted(Sorted(Tail(items)), items[1])

\* a fingerprint that keeps the insertion order of the bindings
FingerprintUnsorted(terminal_values) == terminal_values

\* value_fingerprint = tuple(sorted(terminal_values.items())); a dict is
\* the sequence of its (name, value) pairs in insertion order
Fingerprint(terminal_values) == Sorted(terminal_values)

\* name in terminal_values
Binds(terminal_values, name) ==
  \E i \in 1..Len(terminal_values) : terminal_values[i][1] = name

\* terminal_values[name]
Lookup(terminal_values, name) ==
  LET i == CHOOSE j \in 1..Len(terminal_values) : terminal_values[j][1] = name
  IN terminal_values[i][2]

\* start.name.isdigit(), and int(start.name)
IsDigit(name) == name \in {"0", "1", "2", "3", "4", "5", "6", "7", "8", "9"}

DigitValue(name) ==
  CASE name = "0" -> 0 [] name = "1" -> 1 [] name = "2" -> 2 [] name = "3" -> 3
    [] name = "4" -> 4 [] name = "5" -> 5 [] name = "6" -> 6 [] name = "7" -> 7
    [] name = "8" -> 8 [] OTHER -> 9

\* the value of a terminal leaf that is not "?": a constant, a digit literal
\* or a bound variable
TerminalValue(name, terminal_values) ==
  IF name \in DOMAIN constants THEN [val |-> Real(constants[name]), raised |-> ""]
  ELSE IF IsDigit(name) THEN [val |-> Real(DigitValue(name)), raised |-> ""]
  ELSE IF Binds(terminal_values, name)
  THEN [val |-> Real(Lookup(terminal_values, name)), raised |-> ""]
  ELSE [val |-> None, raised |-> "KeyError"]

\* the "?" leaf: erc_index += 1; return ephemeral_random_constants[erc_index - 1]
ReadERC(erc, erc_index) ==
  IF erc_index + 1 > Len(erc)
  THEN [val |-> None, raised |-> "IndexError"]
  ELSE [val |-> Real(erc[erc_index + 1]), raised |-> ""]

RECURSIVE inorder(_, _, _, _, _)
RECURSIVE InorderArgs(_, _, _, _, _, _)
\* inorder(start) with the cursor at erc_index: the value, the cursor it
\* leaves, the exception it raises and the number of callables it applied
inorder(h, start, env, erc_index, applied) ==
  LET name == h[start].name
  IN IF name \in terminals
     THEN IF name = "?"
          THEN LET r == ReadERC(env.erc, erc_index)
               IN [val |-> r.val, raised |-> r.raised,
                   erc_index |-> erc_index + 1, applied |-> applied]
          ELSE LET r == TerminalValue(name, env.terminal_values)
               IN [val |-> r.val, raised |-> r.raised,
                   erc_index |-> erc_index, applied |-> applied]
     ELSE IF name \in DOMAIN functions
     THEN Bind(InorderArgs(h, h[start].children, env, erc_index, applied, <<>>),
               LAMBDA a :
                 IF a.raised # ""
                 THEN [val |-> None, raised |-> a.raised,
                       erc_index |-> a.erc_index, applied |-> a.applied]
                 ELSE LET r == Apply(name, a.vals, env.sqrt_impl)
                      IN [val |-> r.val, raised |-> r.raised,
                          erc_index |-> a.erc_index, applied |-> a.applied + 1])
     ELSE [val |-> None, raised |-> "", erc_index |-> erc_index, applied |-> applied]

\* [inorder(node) for node in start.children], left to right
InorderArgs(h, children, env, erc_index, applied, vals) ==
  IF children = <<>>
  THEN [vals |-> vals, raised |-> "", erc_index |-> erc_index, applied |-> applied]
  ELSE Bind(inorder(h, children[1], env, erc_index, applied),
            LAMBDA r :
              IF r.raised # ""
              THEN [vals |-> vals, raised |-> r.raised,
                    erc_index |-> r.erc_index, applied |-> r.applied]
              ELSE InorderArgs(h, Tail(children), env, r.erc_index, r.applied,
                               Append(vals, r.val)))

RECURSIVE BuildTrees(_, _, _, _)
\* [Chromosome.build_tree(gene) for gene in self.genes], from gene i on;
\* built counts the build_tree calls made
BuildTrees(h, genes, i, roots) ==
  IF i > Len(genes)
  THEN [heap |-> h, trees |-> roots, raised |-> "", built |-> i - 1]
  ELSE Bind(build_tree(h, genes[i]),
            LAMBDA b :
              IF b.raised # ""
              THEN [heap |-> b.heap, trees |-> <<>>, raised |-> b.raised, built |-> i]
              ELSE BuildTrees(b.heap, genes, i + 1, Append(roots, b.root)))

RECURSIVE Reach(_, _)
\* the nodes referenced, through parents and children, from the nodes of S
Reach(h, S) ==
  LET T == S \cup {h[n].parent : n \in S} \cup
           UNION {{h[n].children[i] : i \in 1..Len(h[n].children)} : n \in S}
      U == T \ {0}
  IN IF U = S THEN S ELSE Reach(h, U)

\* the heap once the nodes no longer referenced from the chromosome's trees
\* are collected; the nodes left keep their order and are renumbered
Collect(h, roots) ==
  LET live == Reach(h, {roots[i] : i \in 1..Len(roots)})
      rank(n) == IF n = 0 THEN 0 ELSE Cardinality({m \in live : m <= n})
      keep == SelectSeq([i \in 1..Len(h) |-> i], LAMBDA n : n \in live)
  IN [heap  |-> [k \in 1..Len(keep) |->
                   [name     |-> h[keep[k]].name,
                    parent   |-> rank(h[keep[k]].parent),
                    children |-> [c \in 1..Len(h[keep[k]].children) |->
                                    rank(h[keep[k]].children[c])]]],
      trees |-> [i \in 1..Len(roots) |-> rank(roots[i])]]

\* how a registered callable failed while inorder ran: the exception it
\* raised, "complex" when the result is a complex number, "" when none did
Failure(r) ==
  IF r.raised \in {"ZeroDivisionError", "ValueError", "TypeError"} THEN r.raised
  ELSE IF r.raised = "" /\ r.val.t = "complex" THEN "complex"
  ELSE ""

\* the try block: the value inorder leaves in the cache.  A complex result
\* raises TypeError; ZeroDivisionError and TypeError leave not-a-number;
\* any other exception leaves nothing and propagates.
TryInorder(r) ==
  LET raised == IF r.raised = "" /\ r.val.t = "complex" THEN "TypeError" ELSE r.raised
  IN IF raised \in {"ZeroDivisionError", "TypeError"}
     THEN [val |-> NaN, raised |-> ""]
     ELSE [val |-> r.val, raised |-> raised]

\* the cache with a value stored under a fingerprint
Store(values, fp, v) ==
  [k \in DOMAIN values \cup {fp} |-> IF k = fp THEN v ELSE values[k]]

\* the memo test of evaluate: the fingerprint is a key of self._values_
Memoized(chrom, terminal_values) ==
  Fingerprint(terminal_values) \in DOMAIN chrom._values_

\* the result of an evaluate call: the chromosome and heap it leaves, the
\* exception it raises ("" when it returns), the value it returns, how many
\* times it ran build_tree, link and a registered callable, the cursor it
\* leaves and how a callable failed in it
Result(chrom, h, raised, value, built, linked, applied, erc_index, failure) ==
  [self |-> chrom, heap |-> h, raised |-> raised, value |-> value,
   built |-> built, linked |-> linked, applied |-> applied,
   erc_index |-> erc_index, failure |-> failure]

\* if len(self.trees) == 0: self.trees = [build_tree(gene) for gene in self.genes]
Trees(chrom, h) ==
  IF chrom.trees = <<>> THEN BuildTrees(h, chrom.genes, 1, <<>>)
  ELSE [heap |-> h, trees |-> chrom.trees, raised |-> "", built |-> 0]

\* expression_tree: the trees linked when the chromosome is multigenic,
\* the first tree otherwise
ExpressionTree(cf, h, trees) ==
  IF cf.num_genes > 1 THEN link(h, cf.linking_function, trees)
  ELSE [heap |-> h, root |-> trees[1], raised |-> ""]

\* the end of evaluate: the try block on the expression tree l; what the
\* call no longer references is collected
Traverse(chrom, cf, terminal_values, b, l) ==
  LET env == [erc |-> chrom.ephemeral_random_constants,
              terminal_values |-> terminal_values, sqrt_impl |-> cf.sqrt_impl]
      nl  == IF cf.num_genes > 1 THEN 1 ELSE 0
  IN Bind(inorder(l.heap, l.root, env, 0, 0),
          LAMBDA r :
            Bind(Collect(l.heap, b.trees),
                 LAMBDA g :
                   LET t  == TryInorder(r)
                       c2 == [chrom EXCEPT !.trees = g.trees]
                   IN IF t.raised # ""
                      THEN Result(c2, g.heap, t.raised, None, b.built, nl,
                                  r.applied, r.erc_index, Failure(r))
                      ELSE Result([c2 EXCEPT !._values_ =
                                     Store(@, Fingerprint(terminal_values), t.val)],
                                  g.heap, "", t.val, b.built, nl, r.applied,
                                  r.erc_index, Failure(r))))

\* chromosome.evaluate(terminal_values) under the class attributes cf
evaluate(chrom, h, cf, terminal_values) ==
  IF Memoized(chrom, terminal_values)
  THEN Result(chrom, h, "", chrom._values_[Fingerprint(terminal_values)],
              0, 0, 0, 0, "")
  ELSE Bind(Trees(chrom, h),
            LAMBDA b :
              IF b.raised # ""
              THEN Result(chrom, Collect(b.heap, chrom.trees).heap, b.raised, None,
                          b.built, 0, 0, 0, "")
              ELSE Bind(ExpressionTree(cf, b.heap, b.trees),
                        LAMBDA l :
                          IF l.raised # ""
                          THEN Bind(Collect(l.heap, b.trees),
                                    LAMBDA g :
                                      Result([chrom EXCEPT !.trees = g.trees], g.heap,
                                             l.raised, None, b.built, 1, 0, 0, ""))
                          ELSE Traverse(chrom, cf, terminal_values, b, l)))

\* ------------------------------------------------------------------ fitness
\* A fitness is a fraction <<n, d>> with d > 0; <<1, 0>> is infinity,
\* <<0, 0>> is not-a-number, and <<>> is None (no fitness yet).
RECURSIVE GCD(_, _)
GCD(a, b) == IF b = 0 THEN a ELSE GCD(b, a % b)

Frac(n, d) ==
  LET g == GCD(Abs(n), d)
  IN IF g = 0 THEN <<0, 1>> ELSE <<n \div g, d \div g>>

FInf == <<1, 0>>

FNaN == <<0, 0>>

\* x + y on fitness values
FAdd(x, y) ==
  IF x = FNaN \/ y = FNaN THEN FNaN
  ELSE IF x = FInf \/ y = FInf THEN FInf
  ELSE Frac(x[1] * y[2] + y[1] * x[2], x[2] * y[2])

\* type(C_ij) == np.complex or np.isnan(C_ij) or np.isinf(C_ij) or np.isneginf(C_ij)
NonFinite(C) == C.t \in {"complex", "nan", "inf"}

\* an error term that is not squared
SquaredErrorPlain(C, T) == C - T

\* (C_ij - T_j)**2
SquaredError(C, T) == (C - T) * (C - T)

\* 1.0/(1 + fitness), the fitness the inverse-error scorers store
Inverse(fit) ==
  IF fit = FInf THEN [fit |-> <<0, 1>>, raised |-> ""]
  ELSE IF fit = FNaN THEN [fit |-> FNaN, raised |-> ""]
  ELSE IF fit[1] + fit[2] = 0 THEN [fit |-> FNaN, raised |-> "ZeroDivisionError"]
  ELSE IF fit[1] + fit[2] < 0
  THEN [fit |-> Frac(-fit[2], -(fit[1] + fit[2])), raised |-> ""]
  ELSE [fit |-> Frac(fit[2], fit[1] + fit[2]), raised |-> ""]

\* one fitness case of a scorer, the chromosome's value C for it in hand:
\* the running fitness it leaves, whether the loop breaks, what it raises.
\* kind is the scorer; prm holds its parameters M, center and dimension.
CaseTerm(kind, prm, case, C, fit) ==
  LET out(f, brk, e) == [fit |-> f, brk |-> brk, raised |-> e]
      T == case.target
  IN IF C.t = "none" THEN out(fit, FALSE, "TypeError")
     ELSE CASE kind = "absolute_fitness" ->
                 IF NonFinite(C) THEN out(<<0, 1>>, TRUE, "")
                 ELSE out(FAdd(fit, <<prm.M - Abs(C.v - T), 1>>), FALSE, "")
            [] kind = "relative_fitness" ->
                 IF T = 0 THEN out(fit, FALSE, "ZeroDivisionError")
                 ELSE IF NonFinite(C) THEN out(FNaN, FALSE, "")
                 ELSE out(FAdd(fit, Frac(prm.M * Abs(T) - 100 * Abs(C.v - T), Abs(T))),
                          FALSE, "")
            [] kind = "inv_squared_error" ->
                 IF NonFinite(C) THEN out(FInf, TRUE, "")
                 ELSE out(FAdd(fit, <<SquaredError(C.v, T), 1>>), FALSE, "")
            [] OTHER ->
                 IF NonFinite(C) THEN out(FInf, TRUE, "")
                 ELSE IF ~Binds(case.bindings, prm.dimension)
                 THEN out(fit, FALSE, "KeyError")
                 ELSE LET d == Abs(Lookup(case.bindings, prm.dimension) - prm.center)
                      IN IF d = 0 THEN out(fit, FALSE, "ZeroDivisionError")
                         ELSE out(FAdd(fit, <<Root(Abs(C.v - T), d), 1>>), FALSE, "")

RECURSIVE CaseLoop(_, _, _, _, _, _)
\* for j in range(len(Chromosome.fitness_cases)): ..., from case j on, on
\* st = [self, heap, evals]
CaseLoop(kind, prm, cf, st, j, fit) ==
  IF j > Len(cf.fitness_cases)
  THEN [self |-> st.self, heap |-> st.heap, evals |-> st.evals,
        fit |-> fit, raised |-> ""]
  ELSE Bind(evaluate(st.self, st.heap, cf, cf.fitness_cases[j].bindings),
            LAMBDA e :
              LET s1 == [self |-> e.self, heap |-> e.heap, evals |-> st.evals + 1]
              IN IF e.raised # ""
                 THEN [self |-> s1.self, heap |-> s1.heap, evals |-> s1.evals,
                       fit |-> fit, raised |-> e.raised]
                 ELSE Bind(CaseTerm(kind, prm, cf.fitness_cases[j], e.value, fit),
                           LAMBDA t :
                             IF t.raised # "" \/ t.brk
                             THEN [self |-> s1.self, heap |-> s1.heap,
                                   evals |-> s1.evals, fit |-> t.fit,
                                   raised |-> t.raised]
                             ELSE CaseLoop(kind, prm, cf, s1, j + 1, t.fit)))

\* a memo test by truth value, false for a fitness of 0 as for None
ScoredTruthy(chrom) == chrom._fitness_ # <<>> /\ chrom._fitness_[1] # 0

\* the memo test of the scorers: chromosome._fitness_ is not None
Scored(chrom) == chrom._fitness_ # <<>>

\* the fitness a scorer stores from the sum its loop leaves
Final(kind, fit) ==
  IF kind \in {"absolute_fitness", "relative_fitness"}
  THEN [fit |-> fit, raised |-> ""]
  ELSE Inverse(fit)

RECURSIVE Score(_, _, _, _, _, _)
\* a scorer called with n references to the chromosome: for chromosome in
\* args: ...; fits is the list of fitnesses so far
Score(kind, prm, cf, st, n, fits) ==
  IF n = 0
  THEN [self |-> st.self, heap |-> st.heap, evals |-> st.evals,
        fits |-> fits, raised |-> ""]
  ELSE IF Scored(st.self)
  THEN Score(kind, prm, cf, st, n - 1, Append(fits, st.self._fitness_))
  ELSE Bind(CaseLoop(kind, prm, cf, st, 1, <<0, 1>>),
            LAMBDA l :
              LET f == Final(kind, l.fit)
              IN IF l.raised # "" \/ f.raised # ""
                 THEN [self |-> l.self, heap |-> l.heap, evals |-> l.evals,
                       fits |-> <<>>,
                       raised |-> IF l.raised # "" THEN l.raised ELSE f.raised]
                 ELSE Bind([self |-> [l.self EXCEPT !._fitness_ = f.fit],
                            heap |-> l.heap, evals |-> l.evals],
                           LAMBDA s1 :
                             Score(kind, prm, cf, s1, n - 1, Append(fits, f.fit))))

\* Chromosome.absolute_fitness(M, *args)
absolute_fitness(M, cf, chrom, h, n) ==
  Score("absolute_fitness", [M |-> M, center |-> 0, dimension |-> ""], cf,
        [self |-> chrom, heap |-> h, evals |-> 0], n, <<>>)

\* Chromosome.relative_fitness(M, *args)
relative_fitness(M, cf, chrom, h, n) ==
  Score("relative_fitness", [M |-> M, center |-> 0, dimension |-> ""], cf,
        [self |-> chrom, heap |-> h, evals |-> 0], n, <<>>)

\* Chromosome.inv_squared_error(*args)
inv_squared_error(cf, chrom, h, n) ==
  Score("inv_squared_error", [M |-> 0, center |-> 0, dimension |-> ""], cf,
        [self |-> chrom, heap |-> h, evals |-> 0], n, <<>>)

\* Chromosome.centralized_inv_squared_error(center, dimension, *args)
centralized_inv_squared_error(center, dimension, cf, chrom, h, n) ==
  Score("centralized_inv_squared_error",
        [M |-> 0, center |-> center, dimension |-> dimension], cf,
        [self |-> chrom, heap |-> h, evals |-> 0], n, <<>>)

\* ------------------------------------------------------------- the machine
VARIABLES
  Chromosome,   \* the class attributes: linking_function, num_genes, length,
                \* fitness_cases, and sqrt_impl (the registered square root)
  chromosome,   \* the instance: genes, trees, _values_, _fitness_,
                \* ephemeral_random_constants
  heap,         \* the Nodes alive
  gene, levels, index, tree, pc,   \* a build_tree call: its argument, its
                \* locals, the root it returns and where it stands
  largs,        \* the arguments of a link call
  last,         \* the last call: what it was, what it raised or returned
  completed     \* history: bindings (as a set of pairs) of the evaluate
                \* calls that returned, with the value each returned

vars == <<Chromosome, chromosome, heap, gene, levels, index, tree, pc, largs,
          last, completed>>

\* what is recorded of a call: op, the exception raised ("" when the call
\* returned), the value, root or fitness list returned, the build_tree, link,
\* callable and evaluate calls it made, the cursor it left, its argument,
\* how a callable failed in it,
\* and of the state before it: whether the bindings had completed (seen, with
\* the value prev returned then) and whether the chromosome had a fitness
NoCall == [op |-> "", raised |-> "", value |-> None, fits |-> <<>>, root |-> 0,
           built |-> 0, linked |-> 0, applied |-> 0, evals |-> 0,
           erc_index |-> 0, arg |-> <<>>, n |-> 0, failure |-> "",
           seen |-> FALSE, prev |-> None, scored |-> FALSE]

Empty == [k \in {} |-> None]

\* the class attributes as the source sets them before any configuration
\* is applied
Unconfigured ==
  [linking_function |-> "", num_genes |-> 1, length |-> 1,
   fitness_cases |-> <<>>, sqrt_impl |-> "pow"]

NoChromosome ==
  [genes |-> <<>>, trees |-> <<>>, _values_ |-> Empty, _fitness_ |-> <<>>,
   ephemeral_random_constants |-> <<>>]

\* ----------------------------------------------- build_tree, step by step
\* the symbols of the genes decoded: one of each arity and two terminals
DecodeSymbols == {"+", "Q", "T", "a", "b"}

InitDecode ==
  /\ Chromosome = Unconfigured
  /\ chromosome = NoChromosome
  /\ heap = <<>>
  /\ gene \in SeqsUpTo(DecodeSymbols, MaxGeneLen)
  /\ levels = <<SubSeq(gene, 1, 1)>>
  /\ index = 0
  /\ tree = 0
  /\ pc = "levels"
  /\ largs = <<>>
  /\ last = NoCall
  /\ completed = Empty

\* one iteration of the level-building loop
LevelStep ==
  /\ pc = "levels"
  /\ LoopCond(gene, levels, index)
  /\ levels' = LoopBody(gene, levels, index).levels
  /\ index' = LoopBody(gene, levels, index).index
  /\ UNCHANGED <<Chromosome, chromosome, heap, gene, tree, pc, largs, last, completed>>

\* the loop is left: the tree is materialized and returned, or
\* grab_children raises
Grab ==
  /\ pc = "levels"
  /\ ~LoopCond(gene, levels, index)
  /\ \E m \in {Materialize(heap, gene, levels)} :
        /\ heap' = m.heap
        /\ tree' = IF m.raised = "" THEN m.root ELSE 0
        /\ pc' = IF m.raised = "" THEN "done" ELSE "raised"
        /\ last' = [NoCall EXCEPT !.op = "build_tree", !.raised = m.raised,
                                  !.root = IF m.raised = "" THEN m.root ELSE 0]
  /\ UNCHANGED <<Chromosome, chromosome, gene, levels, index, largs, completed>>

NextDecode == LevelStep \/ Grab

SpecDecode == InitDecode /\ [][NextDecode]_vars

\* ------------------------------------------------------ link on its own
\* the linking functions tried: of arity 1, 2 and 3, and an undefined symbol
LinkingChoices == {"Q", "+", "T", "x"}

\* the arguments tried: the trees of these genes; the empty gene stands for
\* an argument that is no Node
LinkGenes == {<<"a">>, <<"Q", "b">>, <<>>}

RECURSIVE ArgTrees(_, _, _, _)
\* the heap and the argument list for the genes gs, from gene i on
ArgTrees(h, gs, i, roots) ==
  IF i > Len(gs) THEN [heap |-> h, largs |-> roots]
  ELSE IF gs[i] = <<>> THEN ArgTrees(h, gs, i + 1, Append(roots, 0))
  ELSE Bind(build_tree(h, gs[i]),
            LAMBDA b : ArgTrees(b.heap, gs, i + 1, Append(roots, b.root)))

InitLink ==
  /\ \E lf \in LinkingChoices :
       Chromosome = [Unconfigured EXCEPT !.linking_function = lf]
  /\ chromosome = NoChromosome
  /\ \E gs \in SeqsUpTo(LinkGenes, MaxTrees) :
       \E t \in {ArgTrees(<<>>, gs, 1, <<>>)} :
         /\ heap = t.heap
         /\ largs = t.largs
  /\ gene = <<>>
  /\ levels = <<>>
  /\ index = 0
  /\ tree = 0
  /\ pc = "link"
  /\ last = NoCall
  /\ completed = Empty

\* Chromosome.link(*largs)
Link ==
  /\ pc = "link"
  /\ \E l \in {link(heap, Chromosome.linking_function, largs)} :
        /\ heap' = l.heap
        /\ tree' = l.root
        /\ pc' = IF l.raised = "" THEN "done" ELSE "raised"
        /\ last' = [NoCall EXCEPT !.op = "link", !.raised = l.raised, !.root = l.root,
                                  !.n = Len(largs)]
  /\ UNCHANGED <<Chromosome, chromosome, gene, levels, index, largs, completed>>

NextLink == Link

SpecLink == InitLink /\ [][NextLink]_vars

\* ------------------------------------------------------------ __init__
\* the exception Chromosome(genes) raises under class attributes cf, "" when
\* the chromosome is constructed; "" stands for a linking function of None
init_raises(cf, genes) ==
  IF DOMAIN functions = {} THEN "ValueError"
  ELSE IF Cardinality(terminals) = 0 THEN "ValueError"
  ELSE IF cf.linking_function = "" /\ Len(genes) > 1 THEN "ValueError"
  ELSE IF Len(genes) # cf.num_genes THEN "ValueError"
  ELSE ""

\* the chromosome __init__ leaves; erc is what np.random.uniform drew
init(genes, erc) ==
  [genes |-> genes, trees |-> <<>>, _values_ |-> Empty, _fitness_ |-> <<>>,
   ephemeral_random_constants |-> erc]

\* the values an ephemeral random constant takes here
ERCValues == {-1, 0}

\* the genes of the chromosomes evaluated: head of 1 symbol, tail of 2
EvalGenes ==
  {<<"/", "a", "b">>, <<"Q", "a", "b">>, <<"+", "?", "?">>, <<"+", "1", "p">>}

\* the bindings evaluate is called with
TerminalValues ==
  {<< <<"a", 2>>, <<"b", -1>> >>, << <<"b", -1>>, <<"a", 2>> >>,
   << <<"a", -1>>, <<"b", 0>> >>, << <<"a", 0>> >>}

\* the class attributes tried: the linking function is None or "/"
Configurations ==
  {[linking_function |-> lf, num_genes |-> n, length |-> 3,
    fitness_cases |-> <<>>, sqrt_impl |-> q] :
     lf \in {"", "/"}, n \in 1..MaxGenes, q \in {"pow", "math"}}

InitEval ==
  /\ Chromosome \in Configurations
  /\ \E genes \in SeqsUpTo(EvalGenes, MaxGenes) :
       /\ init_raises(Chromosome, genes) = ""
       /\ \E erc \in [1..Chromosome.length -> ERCValues] :
            chromosome = init(genes, erc)
  /\ Chromosome.num_genes = 1 => Chromosome.linking_function = ""
  /\ heap = <<>>
  /\ gene = <<>>
  /\ levels = <<>>
  /\ index = 0
  /\ tree = 0
  /\ pc = "ready"
  /\ largs = <<>>
  /\ last = NoCall
  /\ completed = Empty

\* the bindings as the set of their (name, value) pairs
Pairs(terminal_values) == {terminal_values[i] : i \in 1..Len(terminal_values)}

\* chromosome.evaluate(terminal_values)
Evaluate(terminal_values) ==
  \E e \in {evaluate(chromosome, heap, Chromosome, terminal_values)} :
  LET key == Pairs(terminal_values)
  IN /\ pc = "ready"
     /\ chromosome' = e.self
     /\ heap' = e.heap
     /\ last' = [NoCall EXCEPT !.op = "evaluate", !.raised = e.raised,
                               !.value = e.value, !.built = e.built,
                               !.linked = e.linked, !.applied = e.applied,
                               !.erc_index = e.erc_index, !.arg = terminal_values,
                               !.failure = e.failure,
                               !.seen = key \in DOMAIN completed,
                               !.prev = IF key \in DOMAIN completed
                                        THEN completed[key] ELSE None,
                               !.scored = Scored(chromosome)]
     /\ completed' = IF e.raised = "" THEN Store(completed, key, e.value)
                     ELSE completed
     /\ UNCHANGED <<Chromosome, gene, levels, index, tree, pc, largs>>

NextEval == \E terminal_values \in TerminalValues : Evaluate(terminal_values)

SpecEval == InitEval /\ [][NextEval]_vars

\* ------------------------------------------------------------- scoring
\* the genes of the chromosomes scored
FitGenes == {<<"/", "a", "b">>, <<"Q", "a", "b">>}

\* the fitness cases tried: (bindings, target) pairs
CaseSet ==
  {[bindings |-> b, target |-> t] :
     b \in {<< <<"a", 2>>, <<"b", -1>> >>, << <<"a", -1>>, <<"b", 0>> >>},
     t \in {0, 2}}

\* the parameters the scorers are called with
Ranges == {10}

Centers == {0, 2}

Dimensions == {"a", "c"}

\* a scorer is called with one or two references to the chromosome
Counts == {1, 2}

InitFit ==
  /\ \E n \in 1..MaxGenes, q \in {"pow", "math"},
        cases \in {<<>>} \cup SeqsUpTo(CaseSet, MaxCases) :
       Chromosome = [linking_function |-> IF n = 1 THEN "" ELSE "+",
                     num_genes |-> n, length |-> 3,
                     fitness_cases |-> cases, sqrt_impl |-> q]
  /\ \E genes \in SeqsUpTo(FitGenes, MaxGenes) :
       /\ init_raises(Chromosome, genes) = ""
       /\ chromosome = init(genes, [i \in 1..Chromosome.length |-> 0])
  /\ heap = <<>>
  /\ gene = <<>>
  /\ levels = <<>>
  /\ index = 0
  /\ tree = 0
  /\ pc = "ready"
  /\ largs = <<>>
  /\ last = NoCall
  /\ completed = Empty

\* what a scorer call that returned r leaves
Scoring(op, n, r) ==
  /\ pc = "ready"
  /\ chromosome' = r.self
  /\ heap' = r.heap
  /\ last' = [NoCall EXCEPT !.op = op, !.raised = r.raised, !.fits = r.fits,
                            !.evals = r.evals, !.n = n,
                            !.scored = Scored(chromosome)]
  /\ UNCHANGED <<Chromosome, gene, levels, index, tree, pc, largs, completed>>

AbsoluteFitness(M, n) ==
  \E r \in {absolute_fitness(M, Chromosome, chromosome, heap, n)} :
    Scoring("absolute_fitness", n, r)

RelativeFitness(M, n) ==
  \E r \in {relative_fitness(M, Chromosome, chromosome, heap, n)} :
    Scoring("relative_fitness", n, r)

InvSquaredError(n) ==
  \E r \in {inv_squared_error(Chromosome, chromosome, heap, n)} :
    Scoring("inv_squared_error", n, r)

CentralizedInvSquaredError(center, dimension, n) ==
  \E r \in {centralized_inv_squared_error(center, dimension, Chromosome,
                                          chromosome, heap, n)} :
    Scoring("centralized_inv_squared_error", n, r)

\* chromosome.fitness(): the fitness, or 0 (with a warning) when there is none
fitness(chrom) == IF Scored(chrom) THEN chrom._fitness_ ELSE <<0, 1>>

Fitness ==
  /\ pc = "ready"
  /\ last' = [NoCall EXCEPT !.op = "fitness", !.fits = <<fitness(chromosome)>>,
                            !.scored = Scored(chromosome)]
  /\ UNCHANGED <<Chromosome, chromosome, heap, gene, levels, index, tree, pc,
                 largs, completed>>

NextFit ==
  \/ \E M \in Ranges, n \in Counts : AbsoluteFitness(M, n)
  \/ \E M \in Ranges, n \in Counts : RelativeFitness(M, n)
  \/ \E n \in Counts : InvSquaredError(n)
  \/ \E c \in Centers, d \in Dimensions, n \in Counts :
       CentralizedInvSquaredError(c, d, n)
  \/ Fitness

SpecFit == InitFit /\ [][NextFit]_vars

\* ------------------------------------------------------ reading a tree
RECURSIVE Concat(_)
Concat(ss) == IF ss = <<>> THEN <<>> ELSE ss[1] \o Concat(Tail(ss))

RECURSIVE BreadthFirst(_, _)
\* the nodes below and including those of frontier, level by level, each
\* level left to right
BreadthFirst(h, frontier) ==
  IF frontier = <<>> THEN <<>>
  ELSE frontier \o
       BreadthFirst(h, Concat([i \in 1..Len(frontier) |-> h[frontier[i]].children]))

\* the names of a sequence of nodes
Names(h, nodes) == [i \in 1..Len(nodes) |-> h[nodes[i]].name]

RECURSIVE PartialSum(_, _)
\* 1 + the arities of the first n symbols: the symbols an expression that
\* starts with them needs
PartialSum(g, n) == IF n = 0 THEN 1 ELSE args(g[n]) + PartialSum(g, n - 1)

\* the gene holds enough symbols for every arity it expresses: some prefix
\* is a whole expression
Complete(g) == \E n \in 1..Len(g) : PartialSum(g, n) = n

\* C1: a gene with enough symbols decodes, without an error, to a tree whose
\* root is gene[0], whose every node has arity(symbol) children, and whose
\* nodes in breadth-first, left-to-right order are a prefix of the gene; no
\* other node exists (the junk is attached nowhere); a gene that starts
\* with a terminal decodes to one node.
C1_Decode ==
  (pc \in {"done", "raised"} /\ Complete(gene)) =>
    /\ pc = "done"
    /\ heap[tree].name = gene[1]
    /\ heap[tree].parent = 0
    /\ LET bfs == BreadthFirst(heap, <<tree>>)
       IN /\ \A i \in 1..Len(bfs) :
               Len(heap[bfs[i]].children) = args(heap[bfs[i]].name)
          /\ Len(bfs) <= Len(gene)
          /\ Names(heap, bfs) = SubSeq(gene, 1, Len(bfs))
          /\ Len(heap) = Len(bfs)
          /\ (gene[1] \in terminals => Len(bfs) = 1)

\* C1 witness: a three-level tree decoded from a gene that carries junk
C1_Witness ==
  /\ pc = "done"
  /\ Complete(gene)
  /\ Len(levels) >= 3
  /\ Len(heap) < Len(gene)

\* C9: build_tree ends for every gene, also one that runs out of symbols:
\* every step taken inside the level-building loop either ends the call (the
\* tree is materialized and returned, or IndexError is raised) or adds one
\* level and moves index, which was below len(gene), strictly forward; so
\* the loop makes at most len(gene) iterations and produces at most
\* len(gene) + 1 levels.
C9_Terminates ==
  [][pc = "levels" =>
       \/ pc' \in {"done", "raised"}
       \/ /\ pc' = "levels"
          /\ index < Len(gene)
          /\ index' > index
          /\ Len(levels') = Len(levels) + 1
          /\ Len(levels') <= Len(gene) + 1]_vars

\* C9 witness: a gene that runs out of symbols has ended the call
C9_Witness ==
  /\ pc = "raised"
  /\ ~Complete(gene)
  /\ Len(levels) >= 3

\* ----------------------------------------------------------- link: claims
RECURSIVE Preorder(_, _)
\* the nodes under and including n, depth first, children left to right
Preorder(h, n) ==
  <<n>> \o Concat([i \in 1..Len(h[n].children) |-> Preorder(h, h[n].children[i])])

\* the link call made had a defined linking function and only Nodes as
\* arguments
LinkedTrees ==
  /\ last.op = "link"
  /\ Chromosome.linking_function \in DOMAIN functions
  /\ \A i \in 1..Len(largs) : IsNode(heap, largs[i])

\* C4: link called with m >= k trees, k the arity of the linking function,
\* returns a tree whose root carries the linking symbol and in which the m
\* input trees occur once each, left to right in their order; with m = k
\* they are the children of the root
C4_Link ==
  (LinkedTrees /\ Len(largs) >= args(Chromosome.linking_function)) =>
    /\ last.raised = ""
    /\ heap[last.root].name = Chromosome.linking_function
    /\ heap[last.root].parent = 0
    /\ SelectSeq(Preorder(heap, last.root),
                 LAMBDA x : \E i \in 1..Len(largs) : largs[i] = x) = largs
    /\ Len(largs) = args(Chromosome.linking_function) =>
         heap[last.root].children = largs

\* C5: link called with at least one tree but fewer than k trees ends by
\* raising one of the errors link raises itself (ValueError, TypeError)
C5_Rejected ==
  (LinkedTrees /\ Len(largs) < args(Chromosome.linking_function)) =>
    last.raised \in {"ValueError", "TypeError"}

\* ------------------------------------------------------- evaluate: claims
\* C2: an evaluate call whose bindings hold the same pairs as those of an
\* earlier evaluate call that returned, returns what that call returned,
\* and runs neither build_tree nor link nor a registered callable
C2_Memoized ==
  (last.op = "evaluate" /\ last.seen) =>
    /\ last.raised = ""
    /\ last.value = last.prev
    /\ last.built = 0
    /\ last.linked = 0
    /\ last.applied = 0

\* C2 witness: the same pairs given in another order, after a call that
\* applied callables returned
C2_Witness ==
  /\ last.op = "evaluate"
  /\ last.seen
  /\ last.arg = << <<"b", -1>>, <<"a", 2>> >>
  /\ last.value.t = "real"

\* C6: when a registered callable fails arithmetically during evaluate
\* (division by zero, a square root of a negative argument), evaluate
\* returns not-a-number and stores it under the fingerprint
C6_Absorbed ==
  (last.op = "evaluate" /\ last.failure # "") =>
    /\ last.raised = ""
    /\ last.value = NaN
    /\ Fingerprint(last.arg) \in DOMAIN chromosome._values_
    /\ chromosome._values_[Fingerprint(last.arg)] = NaN

\* C7: evaluate never moves the ephemeral-constant cursor past the slots
\* of ephemeral_random_constants, so it never reads past their end
C7_Slots ==
  last.op = "evaluate" =>
    /\ last.erc_index <= Len(chromosome.ephemeral_random_constants)
    /\ last.raised # "IndexError"

RECURSIVE Shape(_, _)
\* the subtree under a node: its symbol and the subtrees of its children
Shape(h, n) ==
  [name |-> h[n].name,
   children |-> [i \in 1..Len(h[n].children) |-> Shape(h, h[n].children[i])]]

\* the subtrees under the gene trees of a chromosome, in their order
Shapes(h, chrom) == [i \in 1..Len(chrom.trees) |-> Shape(h, chrom.trees[i])]

\* the value a chromosome that has evaluated nothing yet returns
FreshValue(terminal_values) ==
  evaluate(init(chromosome.genes, chromosome.ephemeral_random_constants), <<>>,
           Chromosome, terminal_values).value

\* C10: for a multigenic chromosome no evaluate call changes the subtree
\* under a cached gene tree or the order of the trees, and the value a call
\* returns is the one a chromosome that has evaluated nothing returns
C10_Frame ==
  [][Chromosome.num_genes > 1 =>
       /\ chromosome.trees # <<>> => Shapes(heap', chromosome') = Shapes(heap, chromosome)
       /\ (last'.op = "evaluate" /\ last'.raised = "") =>
            last'.value = FreshValue(last'.arg)]_vars

\* C10 witness: a second cache miss has re-linked the cached trees
C10_Witness ==
  /\ Chromosome.num_genes > 1
  /\ last.op = "evaluate"
  /\ last.raised = ""
  /\ last.built = 0
  /\ last.linked = 1
  /\ last.value.t = "real"
  /\ Cardinality(DOMAIN chromosome._values_) >= 2

\* -------------------------------------------------------- scoring: claims
ScorerOps ==
  {"absolute_fitness", "relative_fitness", "inv_squared_error",
   "centralized_inv_squared_error"}

\* C3: once the fitness of a chromosome is set, no call changes it, and
\* every scorer call returns it for each reference to the chromosome
\* without calling evaluate
C3_SetOnce ==
  [][chromosome._fitness_ # <<>> =>
       /\ chromosome'._fitness_ = chromosome._fitness_
       /\ last'.op \in ScorerOps =>
            /\ last'.raised = ""
            /\ last'.evals = 0
            /\ last'.fits = [i \in 1..last'.n |-> chromosome._fitness_]]_vars

\* C3 witness: a scorer was called on a chromosome another call had scored
C3_Witness ==
  /\ last.op = "relative_fitness"
  /\ last.scored
  /\ last.n = 2
  /\ chromosome._fitness_ = <<0, 1>>
  /\ Len(Chromosome.fitness_cases) >= 1

\* a fitness in (0, 1], and one in [0, 1]
InHalfOpen(f) == f[2] > 0 /\ 0 < f[1] /\ f[1] <= f[2]

InClosed(f) == f[2] > 0 /\ 0 <= f[1] /\ f[1] <= f[2]

\* a fitness case whose cached value is not finite
BadCase ==
  \E j \in 1..Len(Chromosome.fitness_cases) :
    LET fp == Fingerprint(Chromosome.fitness_cases[j].bindings)
    IN fp \in DOMAIN chromosome._values_ /\ NonFinite(chromosome._values_[fp])

\* C8 as stated: every fitness inv_squared_error returns lies in (0, 1]
C8_HalfOpen ==
  (last.op = "inv_squared_error" /\ last.raised = "") =>
    \A i \in 1..Len(last.fits) : InHalfOpen(last.fits[i])

\* C8 amended: for a chromosome that had no fitness, every fitness
\* inv_squared_error returns, and leaves in the fitness field, lies in
\* [0, 1]; it is 0 exactly when a fitness case evaluated to a value that
\* is not finite, and lies in (0, 1] otherwise
C8_Closed ==
  (last.op = "inv_squared_error" /\ last.raised = "" /\ ~last.scored) =>
    \A i \in 1..Len(last.fits) :
      /\ last.fits[i] = chromosome._fitness_
      /\ InClosed(last.fits[i])
      /\ (last.fits[i][1] = 0) = BadCase

\* C8 witness: a not-a-number case gave the fitness 0
C8_Witness ==
  /\ last.op = "inv_squared_error"
  /\ last.raised = ""
  /\ ~last.scored
  /\ last.evals >= 2
  /\ last.fits = << <<0, 1>> >>
====
